---- MODULE Spec2Model ----
(***************************************************************************)
(* Model of scripts/domain_adaptation/select_data copy.py: the scored      *)
(* selection engine (_rank_metric_and_select), the fusion of similarity    *)
(* and diversity scores (select_similar_and_diverse) and the on-disk cache *)
(* shared by the runs of one dst directory.                                *)
(*                                                                         *)
(* Conventions.                                                            *)
(*  - A score is a rational [n |-> numerator, d |-> denominator], d > 0;   *)
(*    comparisons cross-multiply.  Floating point rounding is not          *)
(*    modelled.                                                            *)
(*  - A pandas Series with its default RangeIndex is a sequence; position  *)
(*    i of the sequence is index label i-1.                                *)
(*  - An optional argument (None in Python) is a sequence of length 0 or 1.*)
(*  - pandas' sort_values is called with its default kind, which is not a  *)
(*    stable sort; the order it leaves equal scores in is fixed by the     *)
(*    build (library version, array size, CPU dispatch).  tieAsc and       *)
(*    tieDesc name that order for an ascending and a descending sort.      *)
(***************************************************************************)
EXTENDS Integers, Sequences, FiniteSets, TLC

VARIABLES
    pc,                \* position of the modelled call / run
    tieAsc, tieDesc,   \* order of equal scores left by sort_values (per build)
    scores,            \* the Series passed to _rank_metric_and_select
    args,              \* the argparse Namespace fields the selection reads
    selection_index,   \* the boolean mask returned
    similarities,      \* similarity Series of select_similar_and_diverse
    diversity_scores,  \* diversity Series of select_similar_and_diverse
    sim_selection_index, div_selection_index, \* locals of the union branch
    cache,             \* files of <dst>/cache: name -> content
    runs,              \* number of runs made on the dst directory
    last               \* what the last run requested, read and computed

vars == <<pc, tieAsc, tieDesc, scores, args, selection_index, similarities,
          diversity_scores, sim_selection_index, div_selection_index,
          cache, runs, last>>

fuseVars == <<similarities, diversity_scores, sim_selection_index,
              div_selection_index>>
cacheVars == <<cache, runs, last>>

----------------------------------------------------------------------------
(* Bounds of the model *)

MaxDocs == 3
MaxScore == 1
PctDen == 4
FuseMaxDocs == 2
MaxRuns == 2

----------------------------------------------------------------------------
(* Rational arithmetic *)

Rat(n, d) == [n |-> n, d |-> d]
RLt(a, b) == a.n * b.d < b.n * a.d
RLe(a, b) == a.n * b.d <= b.n * a.d
REq(a, b) == a.n * b.d = b.n * a.d
RNeg(a) == [n |-> 0 - a.n, d |-> a.d]
RAdd(a, b) == [n |-> a.n * b.d + b.n * a.d, d |-> a.d * b.d]
RSub(a, b) == [n |-> a.n * b.d - b.n * a.d, d |-> a.d * b.d]
RMul(a, b) == [n |-> a.n * b.n, d |-> a.d * b.d]

None == <<>>
Some(v) == <<v>>
IsNone(o) == Len(o) = 0
Val(o) == o[1]

Min2(a, b) == IF a <= b THEN a ELSE b
Max2(a, b) == IF a >= b THEN a ELSE b

Count(mask) == Cardinality({i \in DOMAIN mask : mask[i]})

----------------------------------------------------------------------------
(* _rank_metric_and_select *)

\* Mutant of PyInt: rounds the quotient up instead of truncating it.
PyIntCeil(num, den) ==
    IF num % den = 0 THEN num \div den ELSE (num \div den) + 1

\* Python's int() on a quotient: truncation toward zero.
PyInt(num, den) ==
    IF num >= 0 THEN num \div den ELSE 0 - ((0 - num) \div den)

\* Mutant of SliceTo: the slice bound is taken inclusive, seq[:n+1].
SliceToInclusive(seq, n) ==
    IF n + 1 >= 0 THEN SubSeq(seq, 1, Min2(n + 1, Len(seq)))
    ELSE SubSeq(seq, 1, Max2(Len(seq) + n + 1, 0))

\* Python's seq[:n], n possibly negative or beyond the length.
SliceTo(seq, n) ==
    IF n >= 0 THEN SubSeq(seq, 1, Min2(n, Len(seq)))
    ELSE SubSeq(seq, 1, Max2(Len(seq) + n, 0))

\* Mutant of SortsBefore: the sort is ascending whatever is asked.
SortsBeforeAscending(s, i, j, ascending) ==
    \/ RLt(s[i], s[j])
    \/ /\ REq(s[i], s[j])
       /\ IF tieAsc = "first" THEN i < j ELSE i > j

\* Mutant of SortsBefore: equal scores are left in the opposite order.
SortsBeforeTiesSwapped(s, i, j, ascending) ==
    LET tie == IF ascending THEN tieAsc ELSE tieDesc IN
    \/ IF ascending THEN RLt(s[i], s[j]) ELSE RLt(s[j], s[i])
    \/ /\ REq(s[i], s[j])
       /\ IF tie = "first" THEN i > j ELSE i < j

\* i comes before j in the order sort_values leaves.
SortsBefore(s, i, j, ascending) ==
    LET tie == IF ascending THEN tieAsc ELSE tieDesc IN
    \/ IF ascending THEN RLt(s[i], s[j]) ELSE RLt(s[j], s[i])
    \/ /\ REq(s[i], s[j])
       /\ IF tie = "first" THEN i < j ELSE i > j

\* scores.sort_values(ascending=...).index: the positions in sorted order.
SortValuesIndex(s, ascending) ==
    [r \in 1..Len(s) |->
        CHOOSE i \in 1..Len(s) :
            Cardinality({j \in 1..Len(s) : SortsBefore(s, j, i, ascending)}) = r - 1]

\* n_docs of lines 452-455: int(len(scores) * pct), else args.n_docs (an
\* optional: None when neither pct nor n_docs was given).
NDocsOf(s, a) ==
    IF ~IsNone(a.pct)
    THEN Some(PyInt(Len(s) * Val(a.pct).n, Val(a.pct).d))
    ELSE a.n_docs

\* Mutant of DocIndices: the threshold is tested for truth, not for None, so
\* a threshold of 0 counts as unset.
DocIndicesThresholdFalsy(s, a) ==
    IF IsNone(a.threshold) \/ Val(a.threshold).n = 0
    THEN LET sorted == SortValuesIndex(s, a.invert)
             n == NDocsOf(s, a)
             idx == IF IsNone(n) THEN sorted ELSE SliceTo(sorted, Val(n))
         IN {idx[r] : r \in 1..Len(idx)}
    ELSE {i \in 1..Len(s) :
            IF ~a.invert THEN RLe(Val(a.threshold), s[i])
            ELSE RLe(s[i], Val(a.threshold))}

\* The index labels to select: lines 451-469.
DocIndices(s, a) ==
    IF IsNone(a.threshold)
    THEN LET sorted == SortValuesIndex(s, a.invert)
             n == NDocsOf(s, a)
             idx == IF IsNone(n) THEN sorted ELSE SliceTo(sorted, Val(n))
         IN {idx[r] : r \in 1..Len(idx)}
    ELSE {i \in 1..Len(s) :
            IF ~a.invert THEN RLe(Val(a.threshold), s[i])
            ELSE RLe(s[i], Val(a.threshold))}

\* Mutant of RankMetricAndSelect: args.invert is not honoured.
RankMetricAndSelectNoInvert(s, a) ==
    [i \in 1..Len(s) |-> i \in DocIndices(s, [a EXCEPT !.invert = FALSE])]

\* The mask: lines 450 and 471-473.
RankMetricAndSelect(s, a) ==
    [i \in 1..Len(s) |-> i \in DocIndices(s, a)]

----------------------------------------------------------------------------
(* Inputs of one call of _rank_metric_and_select *)

TieOrders == {"first", "last"}
ScoreVals == {Rat(v, 1) : v \in (0 - MaxScore)..MaxScore}
SeriesOf(vals, maxLen) == UNION {[1..n -> vals] : n \in 1..maxLen}

\* parse_args accepts pct in (0, 1] only (line 153); n_docs is any int and
\* threshold any float; the three are mutually exclusive and one is required.
Pcts == {Rat(k, PctDen) : k \in 1..PctDen}
Policies(maxLen, thresholds) ==
    {[pct |-> Some(p), n_docs |-> None, threshold |-> None] : p \in Pcts}
    \cup {[pct |-> None, n_docs |-> Some(n), threshold |-> None] :
            n \in (0 - 1)..(maxLen + 1)}
    \cup {[pct |-> None, n_docs |-> None, threshold |-> Some(t)] :
            t \in thresholds}

SelectArgs == {[pct |-> p.pct, n_docs |-> p.n_docs, threshold |-> p.threshold,
                invert |-> i] : p \in Policies(MaxDocs, ScoreVals), i \in BOOLEAN}

NoArgs == [mode |-> "none"]

InitSelect ==
    /\ pc = "start"
    /\ tieAsc \in TieOrders
    /\ tieDesc \in TieOrders
    /\ scores \in SeriesOf(ScoreVals, MaxDocs)
    /\ args \in SelectArgs
    /\ selection_index = <<>>
    /\ similarities = <<>>
    /\ diversity_scores = <<>>
    /\ sim_selection_index = <<>>
    /\ div_selection_index = <<>>
    /\ cache = <<>>
    /\ runs = 0
    /\ last = NoArgs

\* One call selection_index = _rank_metric_and_select(scores, args).
RankSelect ==
    /\ pc = "start"
    /\ selection_index' = RankMetricAndSelect(scores, args)
    /\ pc' = "done"
    /\ UNCHANGED <<tieAsc, tieDesc, scores, args, fuseVars, cacheVars>>

NextSelect == RankSelect

SpecSelect == InitSelect /\ [][NextSelect]_vars

----------------------------------------------------------------------------
(* Claims about _rank_metric_and_select, checked under SpecSelect *)

N == Len(scores)
Selected(i) == selection_index[i]
Ranked == pc = "done" /\ IsNone(args.threshold)

\* C1: under the percentage policy the mask has exactly floor(N * pct) true
\* entries, with invert unset and with invert set.
C1_PctCount ==
    (pc = "done" /\ ~IsNone(args.pct)) =>
        /\ Len(selection_index) = N
        /\ \E k \in 0..N :
            /\ k * Val(args.pct).d <= N * Val(args.pct).n
            /\ N * Val(args.pct).n < (k + 1) * Val(args.pct).d
            /\ Count(selection_index) = k

\* C1 witness: 3 documents, pct = 3/4, invert set, 2 = floor(9/4) selected.
C1_Witness ==
    /\ pc = "done" /\ ~IsNone(args.pct) /\ args.invert
    /\ N = 3 /\ REq(Val(args.pct), Rat(3, 4))
    /\ Count(selection_index) = 2

\* C2: under the percentage and fixed-count policies no unselected document
\* scores strictly better than a selected one: without invert every selected
\* score is >= every unselected score, with invert it is <=.
C2_TopK ==
    Ranked =>
        \A i, j \in 1..N :
            (Selected(i) /\ ~Selected(j)) =>
                IF args.invert THEN RLe(scores[i], scores[j])
                ELSE RLe(scores[j], scores[i])

\* C2 witness: a ranked selection that splits documents of different scores.
C2_Witness ==
    /\ Ranked /\ args.invert
    /\ \E i, j \in 1..N :
         Selected(i) /\ ~Selected(j) /\ RLt(scores[i], scores[j])

\* C3: under the threshold policy mask[i] is true exactly when
\* scores[i] >= t (invert unset) or scores[i] <= t (invert set), for every t
\* including 0; with no match the mask is all false and of length N.
C3_Threshold ==
    (pc = "done" /\ ~IsNone(args.threshold)) =>
        /\ Len(selection_index) = N
        /\ \A i \in 1..N :
            Selected(i) <=>
                IF args.invert THEN RLe(scores[i], Val(args.threshold))
                ELSE RLe(Val(args.threshold), scores[i])

\* C3 witness: threshold 0, unset invert, part of the documents match.
C3_Witness ==
    /\ pc = "done" /\ ~IsNone(args.threshold) /\ ~args.invert
    /\ Val(args.threshold).n = 0
    /\ \E i, j \in 1..N : Selected(i) /\ ~Selected(j)

\* C3 witness of the empty result: no document reaches the threshold.
C3_WitnessEmpty ==
    /\ pc = "done" /\ ~IsNone(args.threshold)
    /\ N = 2 /\ Count(selection_index) = 0

\* C4 as stated: whenever n_docs <= N the mask has exactly n_docs true
\* entries, with or without invert.
C4_Original ==
    (pc = "done" /\ ~IsNone(args.n_docs) /\ Val(args.n_docs) <= N) =>
        Count(selection_index) = Val(args.n_docs)

\* C4 amended: whenever 0 <= n_docs <= N the mask has exactly n_docs true
\* entries, with or without invert (a negative n_docs is accepted by
\* parse_args and selects all but the last -n_docs of the ranking).
C4_FixedCount ==
    (pc = "done" /\ ~IsNone(args.n_docs)
        /\ 0 <= Val(args.n_docs) /\ Val(args.n_docs) <= N) =>
        /\ Len(selection_index) = N
        /\ Count(selection_index) = Val(args.n_docs)

\* C4 witness: 2 of 3 documents asked for and selected, invert set.
C4_Witness ==
    /\ pc = "done" /\ ~IsNone(args.n_docs) /\ args.invert
    /\ N = 3 /\ Val(args.n_docs) = 2 /\ Count(selection_index) = 2

TieOrder == IF args.invert THEN tieAsc ELSE tieDesc

\* C5 as stated: of the documents that share the score at the cut-off, the
\* ones at earlier positions are selected in preference to later ones.
C5_Original ==
    Ranked =>
        \A i, j \in 1..N :
            (i < j /\ REq(scores[i], scores[j]) /\ Selected(j)) => Selected(i)

\* C5 amended: of the documents that share the score at the cut-off, the ones
\* the sort places first are selected; the sort is pandas' default, which is
\* not stable, so these are the earlier positions only on a build whose sort
\* happens to leave equal scores in position order, and the later positions
\* on a build that leaves them in reverse order.
C5_TieBreak ==
    Ranked =>
        \A i, j \in 1..N :
            (i < j /\ REq(scores[i], scores[j])) =>
                /\ (TieOrder = "first" /\ Selected(j)) => Selected(i)
                /\ (TieOrder = "last" /\ Selected(i)) => Selected(j)

\* C5 witness: two documents tie at the cut-off and only the later one is
\* selected.
C5_Witness ==
    /\ Ranked /\ ~args.invert
    /\ \E i, j \in 1..N :
         i < j /\ REq(scores[i], scores[j]) /\ Selected(j) /\ ~Selected(i)

Negated(s) == [i \in 1..Len(s) |-> RNeg(s[i])]
InvertedOnNegated ==
    RankMetricAndSelect(Negated(scores), [args EXCEPT !.invert = TRUE])

\* C6 as stated: the top k of scores (invert unset) is the same mask as the
\* bottom k of the negated scores (invert set), equal scores included.
C6_Original ==
    (Ranked /\ ~args.invert) => selection_index = InvertedOnNegated

\* C6 amended: the top k of scores (invert unset) is the same mask as the
\* bottom k of the negated scores (invert set) whenever no selected document
\* has the same score as an unselected one (no tie at the cut-off).
C6_Inversion ==
    (/\ Ranked /\ ~args.invert
     /\ \A i, j \in 1..N :
          (Selected(i) /\ ~Selected(j)) => ~REq(scores[i], scores[j]))
    => selection_index = InvertedOnNegated

\* C6 witness: a top-k selection that splits documents of different scores,
\* with equal scores present in the series.
C6_Witness ==
    /\ Ranked /\ ~args.invert
    /\ \E i, j \in 1..N : Selected(i) /\ ~Selected(j)
    /\ \A i, j \in 1..N :
          (Selected(i) /\ ~Selected(j)) => ~REq(scores[i], scores[j])
    /\ \E i, j \in 1..N : i < j /\ REq(scores[i], scores[j])
    /\ selection_index = InvertedOnNegated

----------------------------------------------------------------------------
(* select_similar_and_diverse: the fusion of the two score series *)

SeqMin(s) == CHOOSE x \in {s[i] : i \in 1..Len(s)} :
                \A j \in 1..Len(s) : RLe(x, s[j])
SeqMax(s) == CHOOSE x \in {s[i] : i \in 1..Len(s)} :
                \A j \in 1..Len(s) : RLe(s[j], x)

\* Mutant of MinMaxScale: the series is left on its own scale.
MinMaxScaleSkipped(s) == s

\* sklearn's MinMaxScaler().fit_transform on one column: X * scale_ + min_
\* with scale_ = 1 / (max - min), a zero range being replaced by 1, and
\* min_ = -min * scale_.
MinMaxScale(s) ==
    LET range == RSub(SeqMax(s), SeqMin(s))
        scale == IF range.n = 0 THEN Rat(1, 1) ELSE Rat(range.d, range.n)
        min_ == RNeg(RMul(SeqMin(s), scale))
    IN [i \in 1..Len(s) |-> RAdd(RMul(s[i], scale), min_)]

\* Mutant of CompositeMetric: the two weights are unpacked in the wrong order.
CompositeMetricSwapped(sim, div, w) ==
    [i \in 1..Len(sim) |->
        RAdd(RMul(Rat(w[2], 1), MinMaxScale(sim)[i]),
             RMul(Rat(w[1], 1), MinMaxScale(div)[i]))]

\* Lines 543-553: sim_weight * similarities + div_weight * diversity_scores
\* on the two rescaled series.
CompositeMetric(sim, div, w) ==
    [i \in 1..Len(sim) |->
        RAdd(RMul(Rat(w[1], 1), MinMaxScale(sim)[i]),
             RMul(Rat(w[2], 1), MinMaxScale(div)[i]))]

\* Mutant of MaskOr: the two masks are intersected.
MaskAnd(a, b) == [i \in 1..Len(a) |-> a[i] /\ b[i]]

\* Line 561: sim_selection_index | div_selection_index.
MaskOr(a, b) == [i \in 1..Len(a) |-> a[i] \/ b[i]]

FuseScoreVals == {Rat(0, 1), Rat(1, 1), Rat(2, 1)}
FuseThresholds == {Rat(0, 1), Rat(1, 2), Rat(1, 1)}
Weights == {0, 1}

FuseArgs ==
    {[pct |-> p.pct, n_docs |-> p.n_docs, threshold |-> p.threshold,
      invert |-> i, fuse_by |-> "linear_combination", sim_div_weights |-> <<ws, wd>>] :
        p \in Policies(FuseMaxDocs, FuseThresholds), i \in BOOLEAN,
        ws \in Weights, wd \in Weights}
    \cup
    {[pct |-> p.pct, n_docs |-> p.n_docs, threshold |-> p.threshold,
      invert |-> i, fuse_by |-> "union", sim_div_weights |-> <<1, 1>>] :
        p \in Policies(FuseMaxDocs, FuseThresholds), i \in BOOLEAN}

\* The two series of lines 521-537 are of one corpus, so of one length.
InitFuse ==
    /\ pc = "start"
    /\ tieAsc \in TieOrders
    /\ tieDesc \in TieOrders
    /\ \E n \in 1..FuseMaxDocs :
         /\ similarities \in [1..n -> FuseScoreVals]
         /\ diversity_scores \in [1..n -> FuseScoreVals]
    /\ args \in FuseArgs
    /\ scores = <<>>
    /\ selection_index = <<>>
    /\ sim_selection_index = <<>>
    /\ div_selection_index = <<>>
    /\ cache = <<>>
    /\ runs = 0
    /\ last = NoArgs

\* Lines 541-555.
FuseLinearCombination ==
    /\ pc = "start"
    /\ args.fuse_by = "linear_combination"
    /\ scores' = CompositeMetric(similarities, diversity_scores,
                                 args.sim_div_weights)
    /\ selection_index' = RankMetricAndSelect(scores', args)
    /\ pc' = "done"
    /\ UNCHANGED <<tieAsc, tieDesc, args, similarities, diversity_scores,
                   sim_selection_index, div_selection_index, cacheVars>>

\* Lines 556-562.
FuseUnion ==
    /\ pc = "start"
    /\ args.fuse_by # "linear_combination"
    /\ sim_selection_index' = RankMetricAndSelect(similarities, args)
    /\ div_selection_index' = RankMetricAndSelect(diversity_scores, args)
    /\ selection_index' = MaskOr(sim_selection_index', div_selection_index')
    /\ pc' = "done"
    /\ UNCHANGED <<tieAsc, tieDesc, args, scores, similarities,
                   diversity_scores, cacheVars>>

NextFuse == FuseLinearCombination \/ FuseUnion

SpecFuse == InitFuse /\ [][NextFuse]_vars

----------------------------------------------------------------------------
(* Claims about the fusion, checked under SpecFuse *)

SimMask == RankMetricAndSelect(similarities, args)
DivMask == RankMetricAndSelect(diversity_scores, args)

\* C7: with fuse_by = 'union' the mask returned is the element-wise OR of the
\* mask the policy gives on the similarity series and the mask the same
\* policy gives on the diversity series, so it has at most as many true
\* entries as the two masks together.
C7_Union ==
    (pc = "done" /\ args.fuse_by = "union") =>
        /\ Len(selection_index) = Len(similarities)
        /\ \A i \in 1..Len(similarities) :
             selection_index[i] <=> (SimMask[i] \/ DivMask[i])
        /\ Count(selection_index) <= Count(SimMask) + Count(DivMask)

\* C7 witness: the two masks differ and the union is larger than either.
C7_Witness ==
    /\ pc = "done" /\ args.fuse_by = "union"
    /\ SimMask # DivMask
    /\ Count(selection_index) > Count(SimMask)
    /\ Count(selection_index) > Count(DivMask)

\* Min-max normalisation stated directly: (x - min) / (max - min), and 0 for
\* a constant series.
Normalized(s) ==
    [i \in 1..Len(s) |->
        IF REq(SeqMax(s), SeqMin(s)) THEN Rat(0, 1)
        ELSE LET num == RSub(s[i], SeqMin(s))
                 den == RSub(SeqMax(s), SeqMin(s))
             IN Rat(num.n * den.d, num.d * den.n)]

\* C8: linear-combination fusion with weights (1, 0) returns the mask the
\* policy gives on the min-max-normalised similarity series alone, and with
\* weights (0, 1) the mask it gives on the min-max-normalised diversity
\* series alone, for every policy and both invert settings.
C8_LinearUnitWeights ==
    (pc = "done" /\ args.fuse_by = "linear_combination") =>
        /\ args.sim_div_weights = <<1, 0>> =>
             selection_index = RankMetricAndSelect(Normalized(similarities), args)
        /\ args.sim_div_weights = <<0, 1>> =>
             selection_index = RankMetricAndSelect(Normalized(diversity_scores), args)

\* C8 witness: weights (1, 0), a threshold policy, and a mask that is neither
\* the one of the raw similarity series nor the one of the diversity series.
C8_Witness ==
    /\ pc = "done" /\ args.fuse_by = "linear_combination"
    /\ args.sim_div_weights = <<1, 0>>
    /\ ~IsNone(args.threshold)
    /\ selection_index # SimMask
    /\ selection_index # RankMetricAndSelect(Normalized(diversity_scores), args)
    /\ \E i, j \in 1..Len(selection_index) :
         selection_index[i] /\ ~selection_index[j]

----------------------------------------------------------------------------
(* The cache of one dst directory and the metric-based runs that share it *)

(* A file of <dst>/cache is named by the tuple of the parts its name is     *)
(* formatted from.  A corpus, a vocabulary and a fine-tune text are         *)
(* identified by the stem of their path, the only part the names use; the   *)
(* runs share one fine-tune text, whose stem is in every similarity name.   *)
(* The content of a file is the artifact it holds, identified by what it    *)
(* was computed from: kind of artifact, representation, corpus, vocabulary, *)
(* metric function, fine-tune text, the fitted TF-IDF model used (model),   *)
(* the corpus-level distribution used (dist) and the number of sign         *)
(* negations applied (negated).  "-" and <<>> stand for "does not apply".   *)

Corpora == {"corpusA", "corpusB"}
Vocabs == {"vocabA", "vocabB"}
FineTuneTexts == {"ftA"}
SimFuncs == {"jensen-shannon", "euclidean"}
DivFuncs == {"entropy", "type_token_ratio"}

Repr(a) == IF a.use_tfidf THEN "tfidf" ELSE "count"

\* Lines 478-482.
SimilarCachePath(a) ==
    <<"similar", Repr(a), a.corpus, a.sim_func, a.fine_tune_text>>
\* Lines 496-499.
DiverseCachePath(a) == <<"diverse", Repr(a), a.corpus, a.div_func>>
\* Lines 515-518.
SimCache(a) == <<"similar", a.corpus, a.sim_func, a.fine_tune_text>>
\* Line 519.
DivCache(a) == <<"diverse", a.corpus>>
\* Lines 230 and 343.
CachedTfidf == <<"tfidf.pkl">>
\* Line 363.
CorpusTfidfCache(a) == <<a.corpus, "tfidf_repr.npy">>
\* Lines 401-404.
TermDistCache(a) == <<"term_dist", a.corpus, a.vocab_file>>

Exists(st, name) == name \in DOMAIN st.cache
Load(st, name) ==
    [st EXCEPT !.reads = @ \cup {[name |-> name, content |-> st.cache[name]]}]
Save(st, name, content) ==
    [st EXCEPT !.cache = [f \in (DOMAIN @) \cup {name} |->
                            IF f = name THEN content ELSE @[f]]]
Called(st, fn) == [st EXCEPT !.calls = @ \cup {fn}]

Artifact(kind, repr, a, func, ft, model, dist) ==
    [kind |-> kind, repr |-> repr, corpus |-> a.corpus, vocab |-> a.vocab_file,
     func |-> func, ft |-> ft, model |-> model, dist |-> dist, negated |-> 0]
Origin(content) == <<content.kind, content.corpus, content.vocab>>

\* Lines 230-248 and 343-360: the fitted vectorizer, loaded if tfidf.pkl
\* exists, else fit on args.corpus and saved.
FitOrLoadTfidf(st, a) ==
    IF Exists(st, CachedTfidf)
    THEN [st |-> Load(st, CachedTfidf), val |-> st.cache[CachedTfidf]]
    ELSE LET v == Artifact("tfidf", "tfidf", a, "-", "-", <<>>, <<>>)
         IN [st |-> Save(Called(st, "fit_tfidf"), CachedTfidf, v), val |-> v]

\* Lines 213-278.
CalculateSimilarityTfidf(st, a) ==
    LET vec == FitOrLoadTfidf(st, a)
    IN [st |-> vec.st,
        val |-> Artifact("similar", "tfidf", a, a.sim_func, a.fine_tune_text,
                         Origin(vec.val), <<>>)]

\* Lines 281-314.
CalculateSimilarityCount(st, a) ==
    [st |-> st,
     val |-> Artifact("similar", "count", a, a.sim_func, a.fine_tune_text,
                      <<>>, <<>>)]

DistanceFuncs == {"euclidean", "variational", "bhattacharyya", "renyi"}

\* Lines 201-210.
CalculateSimilarity(st, a) ==
    LET r == IF a.use_tfidf
             THEN CalculateSimilarityTfidf(Called(st, "calculate_similarity"), a)
             ELSE CalculateSimilarityCount(Called(st, "calculate_similarity"), a)
    IN IF a.sim_func \in DistanceFuncs
       THEN [r EXCEPT !.val.negated = @ + 1]
       ELSE r

\* Lines 328-396.
CalculateDiversityTfidf(st, a) ==
    LET vec == FitOrLoadTfidf(st, a)
        name == CorpusTfidfCache(a)
        corpus_tfidf ==
            IF Exists(vec.st, name)
            THEN [st |-> Load(vec.st, name), val |-> vec.st.cache[name]]
            ELSE LET v == Artifact("tfidf_repr", "tfidf", a, "-", "-",
                                   Origin(vec.val), <<>>)
                 IN [st |-> Save(Called(vec.st, "corpus_tfidf"), name, v),
                     val |-> v]
    IN [st |-> corpus_tfidf.st,
        val |-> Artifact("diverse", "tfidf", a, a.div_func, "-",
                         Origin(vec.val), Origin(corpus_tfidf.val))]

\* Lines 399-439.
CalculateDiversityCount(st, a) ==
    LET name == TermDistCache(a)
        term_dist ==
            IF Exists(st, name)
            THEN [st |-> Load(st, name), val |-> st.cache[name]]
            ELSE LET v == Artifact("term_dist", "count", a, "-", "-", <<>>, <<>>)
                 IN [st |-> Save(Called(st, "corpus_term_dist"), name, v),
                     val |-> v]
    IN [st |-> term_dist.st,
        val |-> Artifact("diverse", "count", a, a.div_func, "-",
                         <<>>, Origin(term_dist.val))]

\* Lines 317-325.
CalculateDiversity(st, a) ==
    LET r == IF a.use_tfidf
             THEN CalculateDiversityTfidf(Called(st, "calculate_diversity"), a)
             ELSE CalculateDiversityCount(Called(st, "calculate_diversity"), a)
    IN IF a.div_func = "type_token_ratio"
       THEN [r EXCEPT !.val.negated = @ + 1]
       ELSE r

\* The cached-or-computed score series of lines 483-490, 501-508, 521-528 and
\* 530-537: read from path unless ignore_cache or the file is missing, else
\* computed and written to path.
\* Mutant of CachedSimilarities: the stored series is never used.
CachedSimilaritiesRecomputed(st, a, path) ==
    LET r == CalculateSimilarity(st, a)
    IN [st |-> Save(r.st, path, r.val), val |-> r.val]

CachedSimilarities(st, a, path) ==
    IF ~a.ignore_cache /\ Exists(st, path)
    THEN [st |-> Load(st, path), val |-> st.cache[path]]
    ELSE LET r == CalculateSimilarity(st, a)
         IN [st |-> Save(r.st, path, r.val), val |-> r.val]

CachedDiversityScores(st, a, path) ==
    IF ~a.ignore_cache /\ Exists(st, path)
    THEN [st |-> Load(st, path), val |-> st.cache[path]]
    ELSE LET r == CalculateDiversity(st, a)
         IN [st |-> Save(r.st, path, r.val), val |-> r.val]

\* The state of a run as it starts: the files left by the earlier runs, and
\* nothing read or called yet.
RunStart == [cache |-> cache, reads |-> {}, calls |-> {}]

CommonArgs ==
    {[corpus |-> c, vocab_file |-> v, use_tfidf |-> t, ignore_cache |-> ic] :
        c \in Corpora, v \in Vocabs, t \in BOOLEAN, ic \in BOOLEAN}

SimilarArgs ==
    {[mode |-> "similar", corpus |-> b.corpus, vocab_file |-> b.vocab_file,
      use_tfidf |-> b.use_tfidf, ignore_cache |-> b.ignore_cache,
      sim_func |-> sf, fine_tune_text |-> ft] :
        b \in CommonArgs, sf \in SimFuncs, ft \in FineTuneTexts}

DiverseArgs ==
    {[mode |-> "diverse", corpus |-> b.corpus, vocab_file |-> b.vocab_file,
      use_tfidf |-> b.use_tfidf, ignore_cache |-> b.ignore_cache,
      div_func |-> df] :
        b \in CommonArgs, df \in DivFuncs}

SimilarAndDiverseArgs ==
    {[mode |-> "similar+diverse", corpus |-> b.corpus,
      vocab_file |-> b.vocab_file, use_tfidf |-> b.use_tfidf,
      ignore_cache |-> b.ignore_cache, sim_func |-> sf,
      fine_tune_text |-> ft, div_func |-> df] :
        b \in CommonArgs, sf \in SimFuncs, ft \in FineTuneTexts,
        df \in DivFuncs}

InitCache ==
    /\ pc = "start"
    /\ tieAsc = "first"
    /\ tieDesc = "first"
    /\ scores = <<>>
    /\ args = NoArgs
    /\ selection_index = <<>>
    /\ similarities = <<>>
    /\ diversity_scores = <<>>
    /\ sim_selection_index = <<>>
    /\ div_selection_index = <<>>
    /\ cache = <<>>
    /\ runs = 0
    /\ last = [reads |-> {}, calls |-> {}]

Finish(a, st, sim, div) ==
    /\ args' = a
    /\ cache' = st.cache
    /\ last' = [reads |-> st.reads, calls |-> st.calls]
    /\ similarities' = sim
    /\ diversity_scores' = div
    /\ runs' = runs + 1
    /\ pc' = "done"
    /\ UNCHANGED <<tieAsc, tieDesc, scores, selection_index,
                   sim_selection_index, div_selection_index>>

\* main in mode 'similar': select_similar up to the series it selects from.
RunSimilar ==
    /\ runs < MaxRuns
    /\ \E a \in SimilarArgs :
         LET r == CachedSimilarities(RunStart, a, SimilarCachePath(a))
         IN Finish(a, r.st, <<r.val>>, <<>>)

\* main in mode 'diverse': select_diverse up to the series it selects from.
RunDiverse ==
    /\ runs < MaxRuns
    /\ \E a \in DiverseArgs :
         LET r == CachedDiversityScores(RunStart, a, DiverseCachePath(a))
         IN Finish(a, r.st, <<>>, <<r.val>>)

\* main in mode 'similar+diverse': select_similar_and_diverse up to the two
\* series it fuses.
RunSimilarAndDiverse ==
    /\ runs < MaxRuns
    /\ \E a \in SimilarAndDiverseArgs :
         LET sim == CachedSimilarities(RunStart, a, SimCache(a))
             div == CachedDiversityScores(sim.st, a, DivCache(a))
         IN Finish(a, div.st, <<sim.val>>, <<div.val>>)

NextCache == RunSimilar \/ RunDiverse \/ RunSimilarAndDiverse

SpecCache == InitCache /\ [][NextCache]_vars

----------------------------------------------------------------------------
(* Claims about the cache, checked under SpecCache *)

ScoreSeriesReads == {r \in last.reads : r.content.kind \in {"similar", "diverse"}}
CorpusLevelReads ==
    {r \in last.reads : r.content.kind \in {"tfidf", "tfidf_repr", "term_dist"}}

\* C9: a score series that a run reads from the cache was computed with the
\* representation mode (tfidf or count), the corpus, the metric function and,
\* for similarity, the fine-tune text that the run requests.
C9_ScoreSeriesAsRequested ==
    \A r \in ScoreSeriesReads :
        /\ r.content.repr = Repr(args)
        /\ r.content.corpus = args.corpus
        /\ r.content.kind = "similar" =>
             /\ r.content.func = args.sim_func
             /\ r.content.ft = args.fine_tune_text
        /\ r.content.kind = "diverse" => r.content.func = args.div_func

\* C10: a TF-IDF model or corpus-level term/TF-IDF distribution that a run
\* loads from the cache was fit or computed on that run's corpus with that
\* run's vocabulary.
C10_CorpusLevelAsRequested ==
    \A r \in CorpusLevelReads :
        /\ r.content.corpus = args.corpus
        /\ r.content.vocab = args.vocab_file

HasSim(a) == a.mode \in {"similar", "similar+diverse"}
HasDiv(a) == a.mode \in {"diverse", "similar+diverse"}
SimPathOf(a) == IF a.mode = "similar" THEN SimilarCachePath(a) ELSE SimCache(a)
DivPathOf(a) == IF a.mode = "diverse" THEN DiverseCachePath(a) ELSE DivCache(a)

\* One run, from the cache it finds to the series it selects from: the
\* protocol for the series stored under path, computed by the function fn.
SeriesProtocol(a, path, fn, series) ==
    /\ (path \in DOMAIN cache /\ ~a.ignore_cache) =>
         /\ series = <<cache[path]>>
         /\ fn \notin last'.calls
    /\ path \notin DOMAIN cache =>
         /\ fn \in last'.calls
         /\ path \in DOMAIN cache'
         /\ <<cache'[path]>> = series

C11_Step ==
    (runs' = runs + 1) =>
        /\ HasSim(args') =>
             SeriesProtocol(args', SimPathOf(args'), "calculate_similarity",
                            similarities')
        /\ HasDiv(args') =>
             SeriesProtocol(args', DivPathOf(args'), "calculate_diversity",
                            diversity_scores')
        /\ args' = args =>
             /\ similarities' = similarities
             /\ diversity_scores' = diversity_scores

\* C11: in a run where the entry of the score series exists and ignore_cache
\* is unset, the stored series is used and calculate_similarity /
\* calculate_diversity is not invoked; where the entry is missing the
\* calculation runs and its result is written to the entry; and a run with
\* the corpus and configuration of the run before it selects from the same
\* series (so, selection being a function of series and args, returns the
\* same mask).
C11_CacheProtocol == [][C11_Step]_vars

\* C11 witness: a second run in mode similar that finds its entry, calls
\* nothing and selects from the stored series.
C11_Witness ==
    /\ runs = 2 /\ args.mode = "similar" /\ ~args.ignore_cache
    /\ last.calls = {}
    /\ \E r \in last.reads :
         r.name = SimilarCachePath(args) /\ similarities = <<r.content>>

C12_Step ==
    (runs' = runs + 1 /\ args'.ignore_cache) =>
        /\ \A r \in last'.reads : r.name \notin DOMAIN cache
        /\ HasSim(args') => "calculate_similarity" \in last'.calls
        /\ HasDiv(args') => "calculate_diversity" \in last'.calls
        /\ args'.use_tfidf => "fit_tfidf" \in last'.calls
        /\ (HasDiv(args') /\ args'.use_tfidf) => "corpus_tfidf" \in last'.calls
        /\ (HasDiv(args') /\ ~args'.use_tfidf) =>
             "corpus_term_dist" \in last'.calls

\* C12: a run with ignore_cache set reads no artifact (fitted TF-IDF model,
\* corpus-level distribution, score series) that the cache directory held
\* when the run began: each is recomputed whatever the directory holds.
C12_IgnoreCacheReadsNothing == [][C12_Step]_vars

SignFlips(func) ==
    IF func \in DistanceFuncs \cup {"type_token_ratio"} THEN 1 ELSE 0

\* C15: in every run the score series passed to selection is the raw metric
\* of the run's function negated once when that function is euclidean,
\* variational, bhattacharyya or renyi (similarity) or type_token_ratio
\* (diversity) and un-negated otherwise, on a cache miss and on a cache hit
\* alike.
C15_NegatedOnce ==
    runs > 0 =>
        /\ \A i \in 1..Len(similarities) :
             similarities[i].negated = SignFlips(args.sim_func)
        /\ \A i \in 1..Len(diversity_scores) :
             diversity_scores[i].negated = SignFlips(args.div_func)

----------------------------------------------------------------------------
(* parse_args and main: from the command line to the selection *)

(* args holds the command line: the mode, the state of the file --corpus    *)
(* names ("missing", "empty" or "ok"), the options -p, -n and -t as given   *)
(* (None when absent) and --invert.  last.cache_folder tells whether        *)
(* <dst>/cache was made, last.error what parse_args raised.  scores is the  *)
(* series main's mode hands to _rank_metric_and_select.                     *)

Modes == {"none", "random", "similar", "diverse", "similar+diverse"}
MetricModes == {"similar", "diverse", "similar+diverse"}
CorpusStates == {"missing", "empty", "ok"}

Given(a) == {o \in {"pct", "n_docs", "threshold"} : ~IsNone(a[o])}

\* Mutant of ArgparseError: the group of -p, -n and -t is not required.
ArgparseErrorNotRequired(a) ==
    CASE a.mode = "none" -> Given(a) # {}
      [] a.mode = "random" -> Given(a) # {"pct"}
      [] OTHER -> Cardinality(Given(a)) > 1

\* Lines 49-67 and 144: parser.parse_args exits with a usage error when an
\* option is given that the mode's subparser does not have, when random has
\* no --pct, or when a metric mode has none or several of -p, -n and -t (a
\* required mutually exclusive group).
ArgparseError(a) ==
    CASE a.mode = "none" -> Given(a) # {}
      [] a.mode = "random" -> Given(a) # {"pct"}
      [] OTHER -> Cardinality(Given(a)) # 1

ValidPct(p) == RLt(Rat(0, 1), p) /\ RLe(p, Rat(1, 1))

\* Mutant of ParseArgsResult: the cache folder is made before the checks.
ParseArgsMkdirFirst(a) ==
    IF ArgparseError(a) THEN [error |-> "usage", cache_folder |-> FALSE]
    ELSE IF a.corpus = "missing"
    THEN [error |-> "FileNotFoundError", cache_folder |-> TRUE]
    ELSE IF a.corpus = "empty"
    THEN [error |-> "ValueError", cache_folder |-> TRUE]
    ELSE IF a.mode = "none"
    THEN [error |-> "AttributeError", cache_folder |-> TRUE]
    ELSE IF ~IsNone(a.pct) /\ ~ValidPct(Val(a.pct))
    THEN [error |-> "ValueError", cache_folder |-> TRUE]
    ELSE [error |-> "none", cache_folder |-> TRUE]

\* Lines 144-160.  Without a mode the Namespace has no pct and line 153
\* raises AttributeError.
ParseArgsResult(a) ==
    IF ArgparseError(a) THEN [error |-> "usage", cache_folder |-> FALSE]
    ELSE IF a.corpus = "missing"
    THEN [error |-> "FileNotFoundError", cache_folder |-> FALSE]
    ELSE IF a.corpus = "empty"
    THEN [error |-> "ValueError", cache_folder |-> FALSE]
    ELSE IF a.mode = "none"
    THEN [error |-> "AttributeError", cache_folder |-> FALSE]
    ELSE IF ~IsNone(a.pct) /\ ~ValidPct(Val(a.pct))
    THEN [error |-> "ValueError", cache_folder |-> FALSE]
    ELSE [error |-> "none", cache_folder |-> TRUE]

\* -p as it may be typed: in (0, 1], 0, below 0 and above 1.
PctArgs == {Rat(k, PctDen) : k \in (0 - 1)..(PctDen + 1)}

CommandLines ==
    {[mode |-> m, corpus |-> c, pct |-> p, n_docs |-> n, threshold |-> t,
      invert |-> i] :
        m \in Modes, c \in CorpusStates,
        p \in {None} \cup {Some(x) : x \in PctArgs},
        n \in {None, Some(1)},
        t \in {None, Some(Rat(1, 1))},
        i \in BOOLEAN}

InitMain ==
    /\ pc = "start"
    /\ tieAsc \in TieOrders
    /\ tieDesc \in TieOrders
    /\ scores \in SeriesOf(FuseScoreVals, FuseMaxDocs)
    /\ args \in CommandLines
    /\ selection_index = <<>>
    /\ similarities = <<>>
    /\ diversity_scores = <<>>
    /\ sim_selection_index = <<>>
    /\ div_selection_index = <<>>
    /\ cache = <<>>
    /\ runs = 0
    /\ last = [error |-> "none", cache_folder |-> FALSE]

\* args = parse_args(): returns, or raises and ends the process.
ParseArgs ==
    /\ pc = "start"
    /\ last' = ParseArgsResult(args)
    /\ pc' = IF last'.error = "none" THEN "parsed" ELSE "raised"
    /\ UNCHANGED <<tieAsc, tieDesc, scores, args, selection_index, fuseVars,
                   cache, runs>>

\* main(args) in a metric mode, from the series of its mode to the mask.
MainMetric ==
    /\ pc = "parsed"
    /\ args.mode \in MetricModes
    /\ selection_index' = RankMetricAndSelect(scores, args)
    /\ runs' = runs + 1
    /\ pc' = "done"
    /\ UNCHANGED <<tieAsc, tieDesc, scores, args, fuseVars, cache, last>>

NextMain == ParseArgs \/ MainMetric

SpecMain == InitMain /\ [][NextMain]_vars

----------------------------------------------------------------------------
(* Claims about parse_args, checked under SpecMain *)

InvalidConfiguration ==
    \/ args.corpus \in {"missing", "empty"}
    \/ ~IsNone(args.pct) /\ ~ValidPct(Val(args.pct))

\* C13: with a corpus path that does not exist or is an empty file, or a pct
\* outside (0, 1], parse_args raises an error before the cache folder is
\* made and before any scoring or selection.
C13_FailFast ==
    InvalidConfiguration =>
        /\ pc \in {"start", "raised"}
        /\ pc = "raised" => last.error # "none"
        /\ ~last.cache_folder
        /\ runs = 0
        /\ selection_index = <<>>

\* C13 witness: a valid corpus and -p 5/4 in a metric mode: ValueError, no
\* cache folder.
C13_Witness ==
    /\ pc = "raised" /\ last.error = "ValueError"
    /\ args.mode = "similar" /\ args.corpus = "ok"
    /\ Given(args) = {"pct"} /\ ~ValidPct(Val(args.pct))
    /\ ~last.cache_folder

\* C14: in a metric mode exactly one of pct, n_docs and threshold is set
\* when selection runs; none or more than one is rejected by parse_args, so
\* _rank_metric_and_select never sees zero or several policies.
C14_ExactlyOnePolicy ==
    /\ pc = "done" => Cardinality(Given(args)) = 1
    /\ (args.mode \in MetricModes /\ Cardinality(Given(args)) # 1) =>
         /\ pc \in {"start", "raised"}
         /\ pc = "raised" => last.error = "usage"
         /\ selection_index = <<>>

\* C14 witness: a similar+diverse run selecting by threshold alone.
C14_Witness ==
    /\ pc = "done" /\ args.mode = "similar+diverse"
    /\ Given(args) = {"threshold"}
    /\ Len(selection_index) = Len(scores)

====
